---- MODULE Spec2Model ----
(***************************************************************************)
(* Model of insights_client/archive.py: class InsightsArchive.             *)
(*                                                                         *)
(* A path string is a sequence of tokens.  "/" is the separator, "." and   *)
(* "*" are the dot and the glob star, every other token is a run of        *)
(* ordinary characters of a file name.  The filesystem is the set of       *)
(* regular files and the set of directories, each entry a resolved path:   *)
(* the sequence of its components below the filesystem root, a component   *)
(* being the sequence of tokens of its name.                               *)
(***************************************************************************)
EXTENDS Integers, Sequences, FiniteSets, TLC

VARIABLES files, dirs, mapper_output, compressor, packaged, last

vars == <<files, dirs, mapper_output, compressor, packaged, last>>

\* Largest number of results kept in the accumulator, all processors together.
MaxResults == 2

SEP == "/"

None == "None"

(***************************************************************************)
(* Strings and paths                                                       *)
(***************************************************************************)

RECURSIVE lstrip(_)
lstrip(p) == IF p # <<>> /\ Head(p) = SEP THEN lstrip(Tail(p)) ELSE p

os_path_join(a, b) ==
    IF b # <<>> /\ Head(b) = SEP THEN b
    ELSE IF a = <<>> \/ a[Len(a)] = SEP THEN a \o b
    ELSE a \o <<SEP>> \o b

\* The components of a path string, empty components dropped.
RECURSIVE SplitPath(_, _, _)
SplitPath(p, cur, acc) ==
    IF p = <<>> THEN (IF cur = <<>> THEN acc ELSE Append(acc, cur))
    ELSE IF Head(p) = SEP
         THEN SplitPath(Tail(p), <<>>, IF cur = <<>> THEN acc ELSE Append(acc, cur))
         ELSE SplitPath(Tail(p), Append(cur, Head(p)), acc)

\* Resolution of "." and ".." components, as the kernel does on open().
RECURSIVE ResolveComps(_, _)
ResolveComps(cs, st) ==
    IF cs = <<>> THEN st
    ELSE IF Head(cs) = <<".">> THEN ResolveComps(Tail(cs), st)
    ELSE IF Head(cs) = <<".", ".">>
         THEN ResolveComps(Tail(cs), IF st = <<>> THEN st ELSE SubSeq(st, 1, Len(st) - 1))
         ELSE ResolveComps(Tail(cs), Append(st, Head(cs)))

\* The file or directory a path string denotes (working directory "/").
RealPath(p) == ResolveComps(SplitPath(p, <<>>, <<>>), <<>>)

IsUnder(q, d) == Len(q) >= Len(d) /\ SubSeq(q, 1, Len(d)) = d

Parent(q) == IF q = <<>> THEN q ELSE SubSeq(q, 1, Len(q) - 1)

\* The test passing for anything that exists, a directory included.
isfile_exists(p) == RealPath(p) \in files \cup dirs

isfile(p) == RealPath(p) \in files

isdir(p) == RealPath(p) \in dirs

\* os.makedirs(os.path.dirname(p)) with OSError swallowed: every lexical
\* prefix of the directory part is created when missing.
makedirs_dirname(ds, p) ==
    LET cs == SplitPath(p, <<>>, <<>>)
    IN  ds \cup { ResolveComps(SubSeq(cs, 1, k), <<>>) : k \in 0..(Len(cs) - 1) }

\* shutil.rmtree(d, True)
rmtree(s, d) == { q \in s : ~IsUnder(q, RealPath(d)) }

(***************************************************************************)
(* Construction                                                            *)
(***************************************************************************)

hostname == "host"

tmp_dir == <<SEP, "var", SEP, "tmp", SEP, "tmpXXXXXX">>

archive_name == <<"insights-host-20160101000000">>

create_archive_dir == os_path_join(tmp_dir, archive_name)

archive_dir == create_archive_dir

create_command_dir == os_path_join(archive_dir, <<"insights_commands">>)

cmd_dir == create_command_dir

Compressors == {"gz", "xz", "bz2", "none", "lzma"}

\* Files of the host the builder collects from.
SrcF == <<SEP, "s", SEP, "f">>
SrcG == <<SEP, "s", SEP, "g">>

HostFiles == {RealPath(SrcF), RealPath(SrcG)}

NoTar ==
    [root |-> <<>>, outcome |-> "none", members |-> {}, json |-> <<>>, again |-> FALSE,
     flag |-> "", file |-> <<>>]

\* The outcome of the last call: what it returned or raised, the files it
\* wrote, the processors it invoked, the tar step it ran.
Result(op, status, ret, arg, wrote, invoked, tar) ==
    [op |-> op, status |-> status, ret |-> ret, arg |-> arg, wrote |-> wrote,
     invoked |-> invoked, tar |-> tar]

\* The builder as __init__(compressor=c) leaves it: the host's files, the
\* staging directories created, the accumulator empty.
Constructed(c) ==
    /\ files = HostFiles
    /\ dirs = makedirs_dirname({}, os_path_join(cmd_dir, <<"x">>))
                \cup makedirs_dirname({}, SrcF)
    /\ mapper_output = <<>>
    /\ compressor = c
    /\ packaged = FALSE
    /\ last = Result("__init__", "returned", <<>>, <<>>, {}, <<>>, NoTar)

\* The builder constructed with the default compressor.
Init == Constructed("gz")

\* The builder constructed with any compressor value, recognized or not.
InitTar == \E c \in Compressors : Constructed(c)

(***************************************************************************)
(* get_full_archive_path                                                   *)
(***************************************************************************)

\* The path joined as given, leading separators kept.
get_full_archive_path_nostrip(path) == os_path_join(archive_dir, path)

get_full_archive_path(path) == os_path_join(archive_dir, lstrip(path))

\* Longest path string a caller resolves.
MaxPathLen == 3

PathTokens == {SEP, ".", "a"}

PathStrings == UNION { [1..n -> PathTokens] : n \in 0..MaxPathLen }

\* A caller takes up a path string.
NewPath(path) ==
    /\ last' = Result("path", "returned", <<>>, path, {}, <<>>, NoTar)
    /\ UNCHANGED <<files, dirs, mapper_output, compressor, packaged>>

\* A caller resolves the path it holds.
Resolve ==
    /\ last.op = "path"
    /\ last' = Result("get_full_archive_path", "returned",
                      get_full_archive_path(last.arg), last.arg, {}, <<>>, NoTar)
    /\ UNCHANGED <<files, dirs, mapper_output, compressor, packaged>>

(***************************************************************************)
(* Writing into the staging tree                                           *)
(***************************************************************************)

\* utilities.write_data_to_file(data, filepath): the intermediate
\* directories are created on demand, then the file is written.
write_data_to_file(fs, filepath) ==
    [fs EXCEPT !.files = @ \cup {RealPath(filepath)},
               !.dirs  = makedirs_dirname(@, filepath),
               !.wrote = @ \cup {RealPath(filepath)}]

\* The filesystem as a call finds it; wrote is the files the call has
\* written so far and json what it has written to output.json.
disk == [files |-> files, dirs |-> dirs, wrote |-> {}, json |-> <<>>]

(***************************************************************************)
(* Processors                                                              *)
(***************************************************************************)

\* plugins.MAPPERS: logical name -> ordered processors.
MAPPERS ==
    [n1 |-> <<"pRaise", "pOk">>,
     n2 |-> <<"pNone", "pMeta">>,
     n3 |-> <<"pRaise", "pNone">>]

\* Processors of the "parse-context" shape.
ComputedMeta == {"pMeta"}

\* What a processor does with a context: it raises, or it returns a value.
parse_context(m, content) == [raised |-> FALSE, value |-> content]

call(m, content) ==
    CASE m = "pRaise" -> [raised |-> TRUE, value |-> None]
      [] m = "pNone"  -> [raised |-> FALSE, value |-> None]
      [] OTHER        -> [raised |-> FALSE, value |-> content]

Truthy(o) == o \notin {None, ""}

\* The result put in front of the earlier ones.
append_result_front(acc, m, o) ==
    IF m \in DOMAIN acc THEN [acc EXCEPT ![m] = <<o>> \o @]
    ELSE (m :> <<o>>) @@ acc

\* self.mapper_output[m].append(o) on a defaultdict(list)
append_result(acc, m, o) ==
    IF m \in DOMAIN acc THEN [acc EXCEPT ![m] = Append(@, o)]
    ELSE (m :> <<o>>) @@ acc

\* The turn of the loop with the exception of the processor left uncaught.
invoke_mapper_reraise(st, m, output) ==
    LET r == IF m \in ComputedMeta THEN parse_context(m, output) ELSE call(m, output)
    IN  IF r.raised
        THEN [st EXCEPT !.invoked = Append(@, m), !.propagated = TRUE]
        ELSE IF Truthy(r.value)
             THEN [st EXCEPT !.invoked = Append(@, m),
                             !.acc = append_result(@, m, r.value)]
             ELSE [st EXCEPT !.invoked = Append(@, m)]

\* The turn of the loop with the accumulator entry of the processor looked
\* up before the result is tested: the defaultdict creates the key.
invoke_mapper_touch(st, m, output) ==
    LET r == IF m \in ComputedMeta THEN parse_context(m, output) ELSE call(m, output)
        touched == IF m \in DOMAIN st.acc THEN st.acc ELSE (m :> <<>>) @@ st.acc
    IN  IF r.raised
        THEN [st EXCEPT !.invoked = Append(@, m)]
        ELSE IF Truthy(r.value)
             THEN [st EXCEPT !.invoked = Append(@, m),
                             !.acc = append_result(@, m, r.value)]
             ELSE [st EXCEPT !.invoked = Append(@, m), !.acc = touched]

\* One turn of the loop of execute_mappers over the processor m.
invoke_mapper(st, m, output) ==
    LET r == IF m \in ComputedMeta THEN parse_context(m, output) ELSE call(m, output)
    IN  IF r.raised
        THEN [st EXCEPT !.invoked = Append(@, m)]
        ELSE IF Truthy(r.value)
             THEN [st EXCEPT !.invoked = Append(@, m),
                             !.acc = append_result(@, m, r.value)]
             ELSE [st EXCEPT !.invoked = Append(@, m)]

\* The loop left at the first processor that raises.
RECURSIVE mapper_loop_break(_, _, _)
mapper_loop_break(ms, st, output) ==
    IF ms = <<>> THEN st
    ELSE IF Head(ms) \notin ComputedMeta /\ call(Head(ms), output).raised
         THEN invoke_mapper(st, Head(ms), output)
         ELSE mapper_loop_break(Tail(ms), invoke_mapper(st, Head(ms), output), output)

RECURSIVE mapper_loop(_, _, _)
mapper_loop(ms, st, output) ==
    IF ms = <<>> \/ st.propagated THEN st
    ELSE mapper_loop(Tail(ms), invoke_mapper(st, Head(ms), output), output)

execute_mappers(acc, name, output) ==
    LET st0 == [acc |-> acc, invoked |-> <<>>, propagated |-> FALSE]
    IN  IF name \in DOMAIN MAPPERS THEN mapper_loop(MAPPERS[name], st0, output)
        ELSE st0

\* The accumulator stays within the bound kept by the model.
RECURSIVE Total(_, _)
Total(acc, ms) ==
    IF ms = {} THEN 0
    ELSE LET m == CHOOSE x \in ms : TRUE IN Len(acc[m]) + Total(acc, ms \ {m})

Bounded(acc) == Total(acc, DOMAIN acc) <= MaxResults

(***************************************************************************)
(* add_to_archive, add_metadata_to_archive                                 *)
(***************************************************************************)

ArchivePaths == { <<>>, <<SEP, "m">>, <<".", ".", SEP, "x">> }

Outputs == {None, "", "t1"}

\* An InsightsCommand or an InsightsFile, with its get_output().
Specs ==
    { sp \in [kind : {"InsightsCommand", "InsightsFile"},
              archive_path : ArchivePaths,
              mangled_command : {<<"c">>},
              relative_path : {<<SEP, "m">>},
              output : Outputs] :
         sp.kind = "InsightsFile" => sp.archive_path = <<>> }

Names == {None, "n1", "n2"}

spec_archive_path(spec) ==
    IF spec.archive_path # <<>>
    THEN get_full_archive_path(lstrip(spec.archive_path))
    ELSE IF spec.kind = "InsightsCommand"
         THEN os_path_join(cmd_dir, lstrip(spec.mangled_command))
         ELSE get_full_archive_path(lstrip(spec.relative_path))

\* The test of the output left out.
output_present_any(output) == TRUE

\* if output:
output_present(output) == Truthy(output)

add_to_archive(spec, name) ==
    LET archive_path == spec_archive_path(spec)
        output == spec.output
        fs == write_data_to_file(disk, archive_path)
        ex == IF name # None
              THEN execute_mappers(mapper_output, name, output)
              ELSE [acc |-> mapper_output, invoked |-> <<>>, propagated |-> FALSE]
    IN  IF output_present(output)
        THEN /\ Bounded(ex.acc)
             /\ files' = fs.files
             /\ dirs' = fs.dirs
             /\ mapper_output' = ex.acc
             /\ last' = Result("add_to_archive",
                               IF ex.propagated THEN "raised" ELSE "returned",
                               <<>>, <<Truthy(output), name>>, fs.wrote,
                               ex.invoked, NoTar)
             /\ UNCHANGED <<compressor, packaged>>
        ELSE /\ last' = Result("add_to_archive", "returned", <<>>, <<Truthy(output), name>>,
                               {}, <<>>, NoTar)
             /\ UNCHANGED <<files, dirs, mapper_output, compressor, packaged>>

MetaPaths == { <<SEP, SEP, "m">>, <<".", ".", SEP, "x">> }

\* The metadata handed to the processors of a name as an artifact is.
add_metadata_through_mappers(meta_path) ==
    LET archive_path == get_full_archive_path(lstrip(meta_path))
        fs == write_data_to_file(disk, archive_path)
        ex == execute_mappers(mapper_output, "n1", "t1")
    IN  /\ files' = fs.files
        /\ dirs' = fs.dirs
        /\ mapper_output' = ex.acc
        /\ last' = Result("add_metadata_to_archive", "returned", <<>>, meta_path,
                          fs.wrote, ex.invoked, NoTar)
        /\ UNCHANGED <<compressor, packaged>>

add_metadata_to_archive(meta_path) ==
    LET archive_path == get_full_archive_path(lstrip(meta_path))
        fs == write_data_to_file(disk, archive_path)
    IN  /\ files' = fs.files
        /\ dirs' = fs.dirs
        /\ last' = Result("add_metadata_to_archive", "returned", <<>>, meta_path,
                          fs.wrote, <<>>, NoTar)
        /\ UNCHANGED <<mapper_output, compressor, packaged>>

(***************************************************************************)
(* delete_tmp_dir, delete_archive_dir                                      *)
(***************************************************************************)

\* The removal raising OSError on a tree that is not there.
rmtree_raises_missing(ds, d) == RealPath(d) \notin ds

\* shutil.rmtree(d, True): ignore_errors is set, no error leaves the call.
rmtree_raises(ds, d) == FALSE

\* Both methods record whether the directory was there when they were called.
delete_tmp_dir ==
    LET raises == rmtree_raises(dirs, tmp_dir)
    IN  /\ files' = IF raises THEN files ELSE rmtree(files, tmp_dir)
        /\ dirs' = IF raises THEN dirs ELSE rmtree(dirs, tmp_dir)
        /\ last' = Result("delete_tmp_dir", IF raises THEN "raised" ELSE "returned",
                          <<>>, <<isdir(tmp_dir)>>, {}, <<>>, NoTar)
        /\ UNCHANGED <<mapper_output, compressor, packaged>>

delete_archive_dir ==
    LET raises == rmtree_raises(dirs, archive_dir)
    IN  /\ files' = IF raises THEN files ELSE rmtree(files, archive_dir)
        /\ dirs' = IF raises THEN dirs ELSE rmtree(dirs, archive_dir)
        /\ last' = Result("delete_archive_dir", IF raises THEN "raised" ELSE "returned",
                          <<>>, <<isdir(archive_dir)>>, {}, <<>>, NoTar)
        /\ UNCHANGED <<mapper_output, compressor, packaged>>

(***************************************************************************)
(* write_mapper_output, create_tar_file                                    *)
(***************************************************************************)

\* The lookup without its default.
get_compression_flag_strict(c) ==
    CASE c = "gz"   -> "z"
      [] c = "xz"   -> "J"
      [] c = "bz2"  -> "j"
      [] OTHER      -> ""

get_compression_flag(c) ==
    CASE c = "gz"   -> "z"
      [] c = "xz"   -> "J"
      [] c = "bz2"  -> "j"
      [] c = "none" -> ""
      [] OTHER      -> "z"

output_json == os_path_join(archive_dir, <<"output.json">>)

\* mapper.serialize({self.hostname: self.mapper_output})
serialize(acc) == (hostname :> acc)

\* output.json left unwritten.
write_mapper_output_skipped(fs, acc) == fs

write_mapper_output(fs, acc) ==
    [write_data_to_file(fs, output_json) EXCEPT !.json = <<serialize(acc)>>]

tar_file_name ==
    LET ext == IF compressor = "none" THEN <<>> ELSE <<".", compressor>>
    IN  os_path_join(tmp_dir, archive_name) \o <<".tar">> \o ext

\* The two directories exchanged.
tar_directory_swapped(full_archive) == IF full_archive THEN tmp_dir ELSE archive_dir

\* The directory handed to tar -C.
tar_directory(full_archive) == IF ~full_archive THEN tmp_dir ELSE archive_dir

\* How the external tar step can end: it writes the archive and exits 0,
\* it fails leaving a truncated archive, it fails before creating any file.
TarOutcomes == {"ok", "fail_partial", "fail_nofile"}

\* subprocess.call(shlex.split("tar c%sfS %s -C %s ." % (flag, file, dir)))
tar_step(fs, file, outcome) ==
    IF outcome = "fail_nofile" THEN fs
    ELSE [fs EXCEPT !.files = @ \cup {RealPath(file)}]

tar_members(fs, file, dir, outcome) ==
    IF outcome = "ok"
    THEN { q \in fs.files : IsUnder(q, RealPath(dir)) /\ q # RealPath(file) }
    ELSE {}

\* The staging tree deleted only after a tar step that succeeded.
delete_after_tar_on_success(fs, outcome) ==
    IF outcome = "ok"
    THEN [fs EXCEPT !.files = rmtree(@, archive_dir), !.dirs = rmtree(@, archive_dir)]
    ELSE fs

\* self.delete_archive_dir() inside create_tar_file
delete_after_tar(fs, outcome) ==
    [fs EXCEPT !.files = rmtree(@, archive_dir), !.dirs = rmtree(@, archive_dir)]

\* os.path.getsize(tar_file_name) raises OSError on a missing file.
getsize_raises(fs, file) == RealPath(file) \notin fs.files

create_tar_file(full_archive, outcome) ==
    LET fs1 == write_mapper_output(disk, mapper_output)
        dir == tar_directory(full_archive)
        fs2 == tar_step(fs1, tar_file_name, outcome)
        fs3 == delete_after_tar(fs2, outcome)
        raises == getsize_raises(fs3, tar_file_name)
    IN  /\ files' = fs3.files
        /\ dirs' = fs3.dirs
        /\ packaged' = (packaged \/ ~raises)
        /\ last' = Result("create_tar_file",
                          IF raises THEN "raised" ELSE "returned",
                          IF raises THEN <<>> ELSE tar_file_name,
                          <<full_archive>>, fs3.wrote, <<>>,
                          [root |-> dir, outcome |-> outcome,
                           members |-> tar_members(fs1, tar_file_name, dir, outcome),
                           json |-> fs1.json, again |-> packaged,
                           flag |-> get_compression_flag(compressor),
                           file |-> tar_file_name])
        /\ UNCHANGED <<mapper_output, compressor>>

(***************************************************************************)
(* copy_file, copy_dir                                                     *)
(***************************************************************************)

\* utilities._expand_paths(path) for a pattern "<directory>/*": the regular
\* files of the directory, in listing order.
GlobOrder == <<SrcF, SrcG>>

_expand_paths(path) ==
    LET d == Parent(SplitPath(path, <<>>, <<>>))
    IN  SelectSeq(GlobOrder, LAMBDA q : isfile(q) /\ Parent(RealPath(q)) = ResolveComps(d, <<>>))

\* _copy_file(path) for each path of ps in turn; shutil.copyfile raises on a
\* source in failing and the exception leaves the loop.
RECURSIVE copy_loop(_, _, _)
copy_loop(ps, st, failing) ==
    IF ps = <<>> \/ st.raised THEN st
    ELSE LET path == Head(ps)
             full_path == get_full_archive_path(path)
             made == [st EXCEPT !.dirs = makedirs_dirname(@, full_path)]
         IN  IF RealPath(path) \in failing
             THEN copy_loop(Tail(ps), [made EXCEPT !.raised = TRUE], failing)
             ELSE copy_loop(Tail(ps),
                            [made EXCEPT !.files = @ \cup {RealPath(full_path)},
                                         !.wrote = @ \cup {RealPath(full_path)}],
                            failing)

CopyInputs == { SrcF, <<SEP, "n">>, <<SEP, "n", SEP, "*">> }

\* if "*" in path:
is_glob(path) == \E i \in 1..Len(path) : path[i] = "*"

copy_file(path, failing) ==
    LET st0 == [files |-> files, dirs |-> dirs, wrote |-> {}, raised |-> FALSE]
        glob == is_glob(path)
        paths == IF glob THEN _expand_paths(path)
                 ELSE IF isfile(path) THEN <<path>> ELSE <<>>
        st == copy_loop(paths, st0, failing)
        ret == IF glob THEN <<>>
               ELSE IF isfile(path) THEN path ELSE <<"False">>
    IN  /\ files' = st.files
        /\ dirs' = st.dirs
        /\ last' = Result("copy_file",
                          IF st.raised THEN "raised" ELSE "returned",
                          IF st.raised THEN <<>> ELSE ret,
                          <<path, failing>>, st.wrote, <<>>, NoTar)
        /\ UNCHANGED <<mapper_output, compressor, packaged>>

\* The argument of copy_dir: an ordered sequence of directory paths.
DirLists == { <<>>, << <<SEP, "s">> >>, << <<SEP, "s">>, <<SEP, "n">> >> }

\* os.path.isdir(path) is handed the whole sequence, not the element, and
\* os.stat raises TypeError on a list; the loop body runs once per element.
copy_dir(path) ==
    /\ last' = Result("copy_dir",
                      IF path = <<>> THEN "returned" ELSE "raised",
                      <<>>, path, {}, <<>>, NoTar)
    /\ UNCHANGED <<files, dirs, mapper_output, compressor, packaged>>

Next ==
    \/ \E spec \in Specs, name \in Names : add_to_archive(spec, name)
    \/ \E meta_path \in MetaPaths : add_metadata_to_archive(meta_path)
    \/ \E path \in CopyInputs, failing \in SUBSET {RealPath(SrcF)} : copy_file(path, failing)
    \/ \E path \in DirLists : copy_dir(path)
    \/ \E full_archive \in BOOLEAN, outcome \in TarOutcomes :
          create_tar_file(full_archive, outcome)
    \/ delete_tmp_dir
    \/ delete_archive_dir

Spec == Init /\ [][Next]_vars

\* Path resolution on its own: callers resolve path strings while the
\* staging tree is written and deleted.
NextResolve ==
    \/ \E path \in PathStrings : NewPath(path)
    \/ Resolve
    \/ \E meta_path \in MetaPaths : add_metadata_to_archive(meta_path)
    \/ delete_archive_dir

SpecResolve == Init /\ [][NextResolve]_vars

\* Copying on its own: literal paths that are a file, a directory or
\* nothing, patterns with two matches or none, and copies that fail.
CopyAllInputs ==
    CopyInputs \cup { SrcG, <<SEP, "s">>, <<SEP, "s", SEP, "*">> }

NextCopy ==
    \/ \E path \in CopyAllInputs, failing \in SUBSET HostFiles : copy_file(path, failing)
    \/ delete_archive_dir
    \/ delete_tmp_dir

SpecCopy == Init /\ [][NextCopy]_vars

\* Packaging on its own, for every compressor value.
NextTar ==
    \/ \E full_archive \in BOOLEAN, outcome \in TarOutcomes :
          create_tar_file(full_archive, outcome)
    \/ \E meta_path \in MetaPaths : add_metadata_to_archive(meta_path)
    \/ delete_tmp_dir
    \/ delete_archive_dir

SpecTar == InitTar /\ [][NextTar]_vars

\* Processing on its own: artifacts with two different outputs, every name
\* of the registry, and the other operations of the builder in between.
MapperOutputs == Outputs \cup {"t2"}

MapperSpecs ==
    { sp \in Specs : sp.kind = "InsightsCommand" /\ sp.archive_path = <<>> }
      \cup { [kind |-> "InsightsCommand", archive_path |-> <<>>,
              mangled_command |-> <<"c">>, relative_path |-> <<SEP, "m">>,
              output |-> "t2"] }

\* "n0" is a name the registry does not know.
MapperNames == Names \cup {"n0", "n3"}

NextMappers ==
    \/ \E spec \in MapperSpecs, name \in MapperNames : add_to_archive(spec, name)
    \/ add_metadata_to_archive(<<"m">>)
    \/ copy_file(SrcF, {})
    \/ copy_dir(<<>>)
    \/ \E outcome \in TarOutcomes : create_tar_file(FALSE, outcome)
    \/ delete_tmp_dir
    \/ delete_archive_dir

SpecMappers == Init /\ [][NextMappers]_vars

(***************************************************************************)
(* Properties                                                              *)
(***************************************************************************)

ArchiveDirGone ==
    /\ RealPath(archive_dir) \notin dirs
    /\ \A q \in files : ~IsUnder(q, RealPath(archive_dir))

\* C1: a processor that raises on every invocation never stops an ingestion:
\* add_to_archive with output returns, the output is written, every
\* processor registered under the name is invoked, and the accumulator
\* never holds an entry for the failing processor.
C1_FailingProcessorIsolated ==
    /\ "pRaise" \notin DOMAIN mapper_output
    /\ (last.op = "add_to_archive" /\ last.arg[1]) =>
          /\ last.status = "returned"
          /\ last.wrote # {}
          /\ last.wrote \subseteq files
          /\ last.invoked =
                IF last.arg[2] \in DOMAIN MAPPERS THEN MAPPERS[last.arg[2]] ELSE <<>>

C1_Witness ==
    /\ last.op = "add_to_archive"
    /\ last.status = "returned"
    /\ last.invoked = <<"pRaise", "pOk">>
    /\ "pOk" \in DOMAIN mapper_output
    /\ Len(mapper_output["pOk"]) = 2
    /\ last.wrote \subseteq files

\* C2: every create_tar_file call ends with the archive subdirectory deleted
\* and the root directory kept, whatever the outcome of the tar step.
C2_ArchiveDirDeletedAfterTar ==
    last.op = "create_tar_file" =>
        /\ last.tar.outcome \in TarOutcomes
        /\ ArchiveDirGone
        /\ RealPath(tmp_dir) \in dirs

C2_Witness ==
    /\ last.op = "create_tar_file"
    /\ last.tar.outcome = "fail_partial"
    /\ ArchiveDirGone
    /\ RealPath(tmp_dir) \in dirs

\* C3: after create_tar_file returns, archive_dir is gone, tmp_dir exists and
\* tmp_dir holds exactly the produced tar file.
C3_RootHoldsOnlyTarFile ==
    (last.op = "create_tar_file" /\ last.status = "returned") =>
        /\ ArchiveDirGone
        /\ RealPath(tmp_dir) \in dirs
        /\ { q \in files : IsUnder(q, RealPath(tmp_dir)) } = {RealPath(tar_file_name)}

\* C4: create_tar_file returns the path of the tar file in every case and
\* never raises because of the outcome of the tar step.
C4_PackageAlwaysReturnsPath ==
    last.op = "create_tar_file" =>
        /\ last.status = "returned"
        /\ last.ret = tar_file_name

\* C5 as stated: tar runs over tmp_dir when full_archive is true and over
\* archive_dir when it is false.
C5_FullArchiveTarsRoot ==
    last.op = "create_tar_file" =>
        last.tar.root = IF last.arg[1] THEN tmp_dir ELSE archive_dir

\* C5 amended: tar runs over tmp_dir when full_archive is false (the
\* default) and over archive_dir when full_archive is true.
C5_FullArchiveTarsArchiveDir ==
    last.op = "create_tar_file" =>
        /\ last.tar.root = IF last.arg[1] THEN archive_dir ELSE tmp_dir
        /\ \A q \in last.tar.members : IsUnder(q, RealPath(last.tar.root))

C5_Witness ==
    /\ last.op = "create_tar_file"
    /\ last.arg[1]
    /\ last.tar.outcome = "ok"
    /\ last.tar.root = archive_dir
    /\ Cardinality(last.tar.members) >= 2

\* C6: a create_tar_file call after a completed one fails: it raises, runs
\* no tar step and writes nothing.
C6_SecondPackageFails ==
    (last.op = "create_tar_file" /\ last.tar.again) =>
        /\ last.status = "raised"
        /\ last.tar.outcome = "none"
        /\ last.tar.members = {}

\* C7: add_to_archive of an artifact with empty or absent output changes
\* neither the filesystem nor the accumulator, invokes no processor and
\* returns normally, whatever logical name is given.
C7_EmptyOutputIsNoOp ==
    [][ (last'.op = "add_to_archive" /\ ~last'.arg[1]) =>
            /\ files' = files
            /\ dirs' = dirs
            /\ mapper_output' = mapper_output
            /\ last'.status = "returned"
            /\ last'.invoked = <<>>
            /\ last'.wrote = {} ]_vars

C7_Witness ==
    /\ last.op = "add_to_archive"
    /\ ~last.arg[1]
    /\ last.arg[2] = "n1"
    /\ last.status = "returned"
    /\ last.invoked = <<>>

\* C8: every file the builder writes lies under archive_dir.
C8_WritesStayUnderArchiveDir ==
    \A q \in last.wrote : IsUnder(q, RealPath(archive_dir))

\* C9: get_full_archive_path gives the same result for a path and for the
\* path with a leading separator added, gives archive_dir joined with the
\* path when the path has no leading separator, and changes no file or
\* directory.
C9_ResolveStripsLeadingSeparators ==
    /\ [](last.op = "get_full_archive_path" =>
            /\ last.ret = get_full_archive_path(<<SEP>> \o last.arg)
            /\ (last.arg = <<>> \/ Head(last.arg) # SEP) =>
                  last.ret = archive_dir \o <<SEP>> \o last.arg)
    /\ [][last'.op = "get_full_archive_path" => (dirs' = dirs /\ files' = files)]_vars

C9_Witness ==
    /\ last.op = "get_full_archive_path"
    /\ last.arg = <<SEP, SEP, "a">>
    /\ last.ret = archive_dir \o <<SEP, "a">>
    /\ RealPath(archive_dir) \notin dirs

\* C10: every create_tar_file call writes the serialized accumulator to
\* output.json in the archive tree before the tar step, also when the
\* accumulator is empty, and a tar step that succeeds packs output.json.
C10_OutputJsonAlwaysPacked ==
    last.op = "create_tar_file" =>
        /\ last.tar.json = <<serialize(mapper_output)>>
        /\ RealPath(output_json) \in last.wrote
        /\ IsUnder(RealPath(output_json), RealPath(archive_dir))
        /\ last.tar.outcome = "ok" => RealPath(output_json) \in last.tar.members

C10_Witness ==
    /\ last.op = "create_tar_file"
    /\ last.tar.outcome = "ok"
    /\ DOMAIN mapper_output = {}
    /\ last.tar.json = <<serialize(mapper_output)>>
    /\ RealPath(output_json) \in last.tar.members

\* The copy of a host file in the staging tree.
ArchiveCopy(q) == RealPath(archive_dir) \o q

\* C11: copy_file on a literal path that is not a regular file returns False
\* and changes no file or directory, and copy_file on a pattern without a
\* match changes no file or directory and returns normally.
C11_AbsentPathCopiesNothing ==
    [][ ( /\ last'.op = "copy_file"
          /\ IF \E i \in 1..Len(last'.arg[1]) : last'.arg[1][i] = "*"
             THEN \A q \in files : Parent(q) # Parent(RealPath(last'.arg[1]))
             ELSE RealPath(last'.arg[1]) \notin files ) =>
            /\ last'.status = "returned"
            /\ last'.wrote = {}
            /\ files' = files
            /\ dirs' = dirs
            /\ last'.ret = IF \E i \in 1..Len(last'.arg[1]) : last'.arg[1][i] = "*"
                           THEN <<>> ELSE <<"False">> ]_vars

C11_Witness ==
    /\ last.op = "copy_file"
    /\ last.arg[1] = <<SEP, "s">>
    /\ last.ret = <<"False">>
    /\ last.wrote = {}
    /\ RealPath(<<SEP, "s">>) \in dirs

\* C12: a copy that fails inside copy_file does not raise to the caller, and
\* the matches of a pattern whose copy does not fail are copied all the same.
C12_CopyFailureNonFatal ==
    last.op = "copy_file" =>
        /\ last.status = "returned"
        /\ \A i \in 1..Len(_expand_paths(last.arg[1])) :
              LET q == RealPath(_expand_paths(last.arg[1])[i])
              IN  (is_glob(last.arg[1]) /\ q \notin last.arg[2]) => ArchiveCopy(q) \in files

\* C13: copy_dir returns normally and, for each element of its argument
\* that is a directory, the files below it are copied to the same relative
\* place in the staging tree; the other elements are skipped.
C13_CopyDirPerElement ==
    last.op = "copy_dir" =>
        /\ last.status = "returned"
        /\ \A i \in 1..Len(last.arg) :
              RealPath(last.arg[i]) \in dirs =>
                 \A q \in HostFiles :
                    IsUnder(q, RealPath(last.arg[i])) => ArchiveCopy(q) \in files

\* C14: the compression flag handed to tar is "z" for gz, "J" for xz, "j" for
\* bz2, "" for none, and "z" for any other compressor value.
C14_CompressionFlagLookup ==
    last.op = "create_tar_file" =>
        /\ compressor = "gz" => last.tar.flag = "z"
        /\ compressor = "xz" => last.tar.flag = "J"
        /\ compressor = "bz2" => last.tar.flag = "j"
        /\ compressor = "none" => last.tar.flag = ""
        /\ compressor \notin {"gz", "xz", "bz2", "none"} => last.tar.flag = "z"

C14_Witness ==
    /\ last.op = "create_tar_file"
    /\ compressor = "lzma"
    /\ last.tar.flag = "z"

\* The extension of the tar file the last create_tar_file call named.
TarExtension ==
    SubSeq(last.tar.file, Len(os_path_join(tmp_dir, archive_name)) + 1, Len(last.tar.file))

\* C15: the tar file is named by the archive base name plus .tar, .tar.gz,
\* .tar.xz or .tar.bz2, and the extension is the one of the compression
\* flag handed to tar.
C15_ExtensionMatchesFlag ==
    last.op = "create_tar_file" =>
        /\ SubSeq(last.tar.file, 1, Len(os_path_join(tmp_dir, archive_name)))
              = os_path_join(tmp_dir, archive_name)
        /\ TarExtension = CASE last.tar.flag = "z" -> <<".tar", ".", "gz">>
                             [] last.tar.flag = "J" -> <<".tar", ".", "xz">>
                             [] last.tar.flag = "j" -> <<".tar", ".", "bz2">>
                             [] OTHER               -> <<".tar">>

\* C16: add_metadata_to_archive writes its content to the destination
\* resolved against archive_dir, invokes no processor and leaves the
\* accumulator as it was.
C16_MetadataBypassesProcessors ==
    [][ last'.op = "add_metadata_to_archive" =>
            /\ last'.status = "returned"
            /\ mapper_output' = mapper_output
            /\ last'.invoked = <<>>
            /\ last'.wrote = {RealPath(os_path_join(archive_dir, lstrip(last'.arg)))}
            /\ last'.wrote \subseteq files' ]_vars

C16_Witness ==
    /\ last.op = "add_metadata_to_archive"
    /\ last.arg = <<SEP, SEP, "m">>
    /\ last.wrote = {ArchiveCopy(<< <<"m">> >>)}
    /\ DOMAIN mapper_output # {}
    /\ last.invoked = <<>>

\* The directory the last delete call removed.
DeletedDir == IF last.op = "delete_tmp_dir" THEN tmp_dir ELSE archive_dir

\* C17: delete_archive_dir and delete_tmp_dir return normally in every state,
\* leave nothing of their tree, leave the state unchanged when called a
\* second time, and delete_tmp_dir removes the produced tar file.
C17_DeleteIdempotent ==
    /\ [](last.op \in {"delete_archive_dir", "delete_tmp_dir"} =>
            /\ last.status = "returned"
            /\ \A q \in files \cup dirs : ~IsUnder(q, RealPath(DeletedDir))
            /\ last.op = "delete_tmp_dir" => RealPath(tar_file_name) \notin files)
    /\ [][ (last.op \in {"delete_archive_dir", "delete_tmp_dir"} /\ last'.op = last.op) =>
              /\ files' = files
              /\ dirs' = dirs
              /\ last'.status = "returned" ]_vars

C17_Witness ==
    /\ last.op = "delete_tmp_dir"
    /\ last.arg = <<FALSE>>
    /\ last.status = "returned"
    /\ packaged
    /\ RealPath(tar_file_name) \notin files

IsPrefix(a, b) == Len(a) <= Len(b) /\ SubSeq(b, 1, Len(a)) = a

\* C18: the accumulator only grows: every step keeps each processor's
\* results as a prefix of its later results, only add_to_archive changes it,
\* a call appends at most one result per processor, and every result in
\* it is truthy.
C18_AccumulatorOnlyGrows ==
    /\ [](\A m \in DOMAIN mapper_output :
            \A i \in 1..Len(mapper_output[m]) : Truthy(mapper_output[m][i]))
    /\ [][ /\ \A m \in DOMAIN mapper_output :
                /\ m \in DOMAIN mapper_output'
                /\ IsPrefix(mapper_output[m], mapper_output'[m])
                /\ Len(mapper_output'[m]) <= Len(mapper_output[m]) + 1
           /\ \A m \in DOMAIN mapper_output' \ DOMAIN mapper_output :
                Len(mapper_output'[m]) = 1
           /\ mapper_output' # mapper_output => last'.op = "add_to_archive" ]_vars

C18_Witness ==
    /\ "pOk" \in DOMAIN mapper_output
    /\ mapper_output["pOk"] = <<"t1", "t2">>
    /\ last.op = "delete_archive_dir"

\* The processors registered under the name of the last add_to_archive call.
Registered(name) == IF name \in DOMAIN MAPPERS THEN MAPPERS[name] ELSE <<>>

\* C19: add_to_archive with output leaves the artifact file in the staging
\* tree whatever its processors do, invokes every processor registered under
\* the name, those after a failing one included, and the processors that
\* return a result have it appended.
C19_WriteIndependentOfProcessors ==
    [][ (last'.op = "add_to_archive" /\ last'.arg[1]) =>
            /\ last'.status = "returned"
            /\ last'.wrote # {}
            /\ last'.wrote \subseteq files'
            /\ Len(last'.invoked) = Len(Registered(last'.arg[2]))
            /\ \A i \in 1..Len(Registered(last'.arg[2])) :
                  LET m == Registered(last'.arg[2])[i]
                  IN  /\ last'.invoked[i] = m
                      /\ m \in {"pOk", "pMeta"} =>
                            /\ m \in DOMAIN mapper_output'
                            /\ Len(mapper_output'[m]) =
                                  1 + (IF m \in DOMAIN mapper_output
                                       THEN Len(mapper_output[m]) ELSE 0) ]_vars

C19_Witness ==
    /\ last.op = "add_to_archive"
    /\ last.arg = <<TRUE, "n1">>
    /\ last.invoked = <<"pRaise", "pOk">>
    /\ last.wrote \subseteq files
    /\ "pOk" \in DOMAIN mapper_output
    /\ mapper_output["pOk"] = <<"t2">>

\* C20: every key of the accumulator holds at least one result, the
\* processors that fail or return no result have no key, and with no result
\* at all output.json is the hostname mapped to an empty mapping.
C20_KeysHaveResults ==
    /\ \A m \in DOMAIN mapper_output : Len(mapper_output[m]) >= 1
    /\ DOMAIN mapper_output \subseteq {"pOk", "pMeta"}
    /\ (last.op = "create_tar_file" /\ DOMAIN mapper_output = {}) =>
          last.tar.json = << (hostname :> <<>>) >>

C20_Witness ==
    /\ last.op = "add_to_archive"
    /\ last.arg = <<TRUE, "n3">>
    /\ last.invoked = <<"pRaise", "pNone">>
    /\ DOMAIN mapper_output = {}
    /\ packaged

====
